---- MODULE Spec2Model ----
(***************************************************************************)
(* Fitness tracker module (homework.py): the Training class hierarchy,     *)
(* InfoMessage, read_package and main, as a state machine of one caller    *)
(* that builds a workout object and then calls its methods.                *)
(*                                                                         *)
(* Python floats are modelled as exact rationals <<n, d>> (d > 0, lowest   *)
(* terms); the claims are about the formulas, not about binary rounding.   *)
(* A Python value is a record [kind, val, exc]: kind "float" carries val,  *)
(* kind "None" is None, kind "raise" carries the exception's name in exc   *)
(* and its message in msg; any other kind names the class of the object    *)
(* returned.                                                               *)
(***************************************************************************)
EXTENDS Integers, Sequences, FiniteSets, TLC

VARIABLES
    ctor,           \* the call that built the current object: "read_package" / "Training" / ""
    workout_type,   \* first argument of the last read_package call
    data,           \* second argument of the last read_package call
    outcome,        \* the Python value the constructing call ended with
    training,       \* the object the caller holds: [cls, attrs]
    ncalls,         \* number of method calls made on the current object
    last,           \* [op, res]: the last method called and its Python value
    infos,          \* the InfoMessage objects show_training_info has returned
    out             \* what main has printed for the current object

vars == <<ctor, workout_type, data, outcome, training, ncalls, last, infos, out>>

-----------------------------------------------------------------------------
(* Bounds of the model *)

MaxLen == 6         \* longest argument list handed to read_package
MaxCalls == 3       \* method calls made on one object

-----------------------------------------------------------------------------
(* Exact rational arithmetic standing for Python's float arithmetic *)

Abs(x) == IF x < 0 THEN -x ELSE x

RECURSIVE GCD(_, _)
GCD(a, b) == IF b = 0 THEN a ELSE GCD(b, a % b)

Norm(n, d) ==
    LET g == GCD(Abs(n), Abs(d))
        s == IF d < 0 THEN -1 ELSE 1
    IN  <<s * (n \div g), s * (d \div g)>>

R(i) == <<i, 1>>

RMul(x, y) ==
    LET g1 == GCD(Abs(x[1]), y[2])
        g2 == GCD(Abs(y[1]), x[2])
    IN  <<(x[1] \div g1) * (y[1] \div g2), (x[2] \div g2) * (y[2] \div g1)>>

RInv(x) == IF x[1] < 0 THEN <<-x[2], -x[1]>> ELSE <<x[2], x[1]>>

RDiv(x, y) == RMul(x, RInv(y))

RAdd(x, y) ==
    LET g == GCD(x[2], y[2])
        l == (x[2] \div g) * y[2]
    IN  Norm(x[1] * (l \div x[2]) + y[1] * (l \div y[2]), l)

\* format(x, '.3f'): the nearest multiple of 1/1000, ties to even, in thousandths
Round3(x) ==
    LET q  == x[1] \div x[2]
        r0 == x[1] % x[2]
        d1 == (r0 * 10) \div x[2]
        r1 == (r0 * 10) % x[2]
        d2 == (r1 * 10) \div x[2]
        r2 == (r1 * 10) % x[2]
        d3 == (r2 * 10) \div x[2]
        r3 == (r2 * 10) % x[2]
        t  == q * 1000 + d1 * 100 + d2 * 10 + d3
        up == \/ r3 + r3 > x[2]
              \/ r3 + r3 = x[2] /\ t % 2 = 1
    IN  IF up THEN t + 1 ELSE t

-----------------------------------------------------------------------------
(* Python values *)

Float(r) == [kind |-> "float", val |-> r, exc |-> "", msg |-> ""]
NoneVal == [kind |-> "None", val |-> R(0), exc |-> "", msg |-> ""]
Raise(e, m) == [kind |-> "raise", val |-> R(0), exc |-> e, msg |-> m]
Returned(k) == [kind |-> k, val |-> R(0), exc |-> "", msg |-> ""]

NoAttrs == [a \in {} |-> 0]
NoObject == [cls |-> "NoneType", attrs |-> NoAttrs]

-----------------------------------------------------------------------------
(* Class constants *)

M_IN_KM == 1000
HOURS_PER_MINUTES == 60
CALORIES_MEAN_SPEED_MULTIPLIER == 18
CALORIES_MEAN_SPEED_SHIFT == Norm(179, 100)
NUM_COEF_0_035 == Norm(35, 1000)
NUM_COEF_0_029 == Norm(29, 1000)
KM_H_IN_M_S == Norm(278, 1000)
CM_IN_M == 100
NUM_COEF_1_1 == Norm(11, 10)
SPEED_MULTIPLIER == 2

\* self.LEN_STEP: the attribute is looked up on the object's class first
LEN_STEP_Base(self) == Norm(65, 100)
LEN_STEP(self) ==
    IF self.cls = "Swimming" THEN Norm(138, 100) ELSE Norm(65, 100)

-----------------------------------------------------------------------------
(* Constructors *)

Training_init(action, duration, weight) ==
    [cls |-> "Training",
     attrs |-> [action |-> action, duration |-> duration, weight |-> weight]]

Running_init(action, duration, weight) ==
    [cls |-> "Running",
     attrs |-> [action |-> action, duration |-> duration, weight |-> weight]]

SportsWalking_init(action, duration, weight, height) ==
    [cls |-> "SportsWalking",
     attrs |-> [action |-> action, duration |-> duration, weight |-> weight,
                height |-> height]]

Swimming_init(action, duration, weight, length_pool, count_pool) ==
    [cls |-> "Swimming",
     attrs |-> [action |-> action, duration |-> duration, weight |-> weight,
                length_pool |-> length_pool, count_pool |-> count_pool]]

-----------------------------------------------------------------------------
(* Methods, as functions of self to a Python value *)

get_distance(self) ==
    Float(RDiv(RMul(R(self.attrs.action), LEN_STEP(self)), R(M_IN_KM)))

Training_get_mean_speed(self) ==
    LET Distance == get_distance(self)
    IN  IF self.attrs.duration = 0
        THEN Raise("ZeroDivisionError", "float division by zero")
        ELSE Float(RDiv(Distance.val, R(self.attrs.duration)))

Swimming_get_mean_speed_Inherited(self) == Training_get_mean_speed(self)
Swimming_get_mean_speed(self) ==
    LET metres == RDiv(R(self.attrs.length_pool * self.attrs.count_pool),
                       R(M_IN_KM))
    IN  IF self.attrs.duration = 0
        THEN Raise("ZeroDivisionError", "float division by zero")
        ELSE Float(RDiv(metres, R(self.attrs.duration)))

get_mean_speed(self) ==
    IF self.cls = "Swimming" THEN Swimming_get_mean_speed(self)
    ELSE Training_get_mean_speed(self)

Training_get_spent_calories(self) == NoneVal

Running_get_spent_calories_OldShift(self) ==
    LET Mean_speed == get_mean_speed(self)
    IN  IF Mean_speed.kind = "raise" THEN Mean_speed
        ELSE Float(RMul(RMul(RDiv(RMul(
                 RAdd(RMul(R(CALORIES_MEAN_SPEED_MULTIPLIER), Mean_speed.val),
                      R(-20)),
                 R(self.attrs.weight)), R(M_IN_KM)),
                 R(self.attrs.duration)), R(HOURS_PER_MINUTES)))
Running_get_spent_calories(self) ==
    LET Mean_speed == get_mean_speed(self)
    IN  IF Mean_speed.kind = "raise" THEN Mean_speed
        ELSE Float(RMul(RMul(RDiv(RMul(
                 RAdd(RMul(R(CALORIES_MEAN_SPEED_MULTIPLIER), Mean_speed.val),
                      CALORIES_MEAN_SPEED_SHIFT),
                 R(self.attrs.weight)), R(M_IN_KM)),
                 R(self.attrs.duration)), R(HOURS_PER_MINUTES)))

SportsWalking_get_spent_calories_Doubled(self) ==
    LET Mean_speed == get_mean_speed(self)
    IN  IF Mean_speed.kind = "raise" THEN Mean_speed
        ELSE IF self.attrs.height = 0
        THEN Raise("ZeroDivisionError", "float division by zero")
        ELSE LET ms == RMul(Mean_speed.val, KM_H_IN_M_S)
                 sq == RMul(RDiv(RMul(ms, R(2)), R(self.attrs.height)),
                            R(CM_IN_M))
             IN  Float(RMul(RMul(
                     RAdd(RMul(NUM_COEF_0_035, R(self.attrs.weight)),
                          RMul(RMul(sq, NUM_COEF_0_029), R(self.attrs.weight))),
                     R(self.attrs.duration)), R(HOURS_PER_MINUTES)))
SportsWalking_get_spent_calories(self) ==
    LET Mean_speed == get_mean_speed(self)
    IN  IF Mean_speed.kind = "raise" THEN Mean_speed
        ELSE IF self.attrs.height = 0
        THEN Raise("ZeroDivisionError", "float division by zero")
        ELSE LET ms == RMul(Mean_speed.val, KM_H_IN_M_S)
                 sq == RMul(RDiv(RMul(ms, ms), R(self.attrs.height)),
                            R(CM_IN_M))
             IN  Float(RMul(RMul(
                     RAdd(RMul(NUM_COEF_0_035, R(self.attrs.weight)),
                          RMul(RMul(sq, NUM_COEF_0_029), R(self.attrs.weight))),
                     R(self.attrs.duration)), R(HOURS_PER_MINUTES)))

Swimming_get_spent_calories(self) ==
    LET Mean_speed == get_mean_speed(self)
    IN  IF Mean_speed.kind = "raise" THEN Mean_speed
        ELSE Float(RMul(RMul(RMul(
                 RAdd(Mean_speed.val, NUM_COEF_1_1),
                 R(SPEED_MULTIPLIER)), R(self.attrs.weight)),
                 R(self.attrs.duration)))

get_spent_calories(self) ==
    CASE self.cls = "Running" -> Running_get_spent_calories(self)
      [] self.cls = "SportsWalking" -> SportsWalking_get_spent_calories(self)
      [] self.cls = "Swimming" -> Swimming_get_spent_calories(self)
      [] OTHER -> Training_get_spent_calories(self)

\* InfoMessage.__init__: the five fields, stored as given
InfoMessage(training_type, duration, distance, speed, calories) ==
    [training_type |-> training_type, duration |-> duration,
     distance |-> distance, speed |-> speed, calories |-> calories]

NoInfo == InfoMessage("", 0, R(0), R(0), NoneVal)

\* show_training_info: [res, info]; the arguments are evaluated left to
\* right, so the first exception raised is the one that propagates
show_training_info(self) ==
    LET d == get_distance(self)
        s == get_mean_speed(self)
        c == get_spent_calories(self)
    IN  IF s.kind = "raise" THEN [res |-> s, info |-> NoInfo]
        ELSE IF c.kind = "raise" THEN [res |-> c, info |-> NoInfo]
        ELSE [res |-> Returned("InfoMessage"),
              info |-> InfoMessage(self.cls, self.attrs.duration,
                                   d.val, s.val, c)]

NoMessage == [training_type |-> "", duration |-> 0, distance |-> 0,
              speed |-> 0, calories |-> 0]

\* get_message: [res, message]; the four numbers in thousandths. Formatting
\* None with '.3f' raises TypeError
get_message(info) ==
    IF info.calories.kind = "None"
    THEN [res |-> Raise("TypeError", "unsupported format string"),
          message |-> NoMessage]
    ELSE [res |-> Returned("str"),
          message |-> [training_type |-> info.training_type,
                       duration |-> Round3(R(info.duration)),
                       distance |-> Round3(info.distance),
                       speed |-> Round3(info.speed),
                       calories |-> Round3(info.calories.val)]]

-----------------------------------------------------------------------------
(* read_package: [res, obj] *)

Unpack(n, d) ==
    IF Len(d) < n THEN Raise("ValueError", "not enough values to unpack")
    ELSE IF Len(d) > n THEN Raise("ValueError", "too many values to unpack")
    ELSE Returned("unpacked")

read_package_Lenient(wt, d) ==
    LET at(i) == IF i <= Len(d) THEN d[i] ELSE 1
    IN  IF wt = "SWM"
        THEN [res |-> Returned("Swimming"),
              obj |-> Swimming_init(at(1), at(2), at(3), at(4), at(5))]
        ELSE IF wt = "RUN"
        THEN [res |-> Returned("Running"),
              obj |-> Running_init(at(1), at(2), at(3))]
        ELSE IF wt = "WLK"
        THEN [res |-> Returned("SportsWalking"),
              obj |-> SportsWalking_init(at(1), at(2), at(3), at(4))]
        ELSE [res |-> NoneVal, obj |-> NoObject]
read_package_Swapped(wt, d) ==
    IF wt = "SWM"
    THEN IF Unpack(5, d).kind = "raise"
         THEN [res |-> Unpack(5, d), obj |-> NoObject]
         ELSE [res |-> Returned("Swimming"),
               obj |-> Swimming_init(d[1], d[2], d[3], d[5], d[4])]
    ELSE IF wt = "RUN"
    THEN IF Unpack(3, d).kind = "raise"
         THEN [res |-> Unpack(3, d), obj |-> NoObject]
         ELSE [res |-> Returned("Running"),
               obj |-> Running_init(d[1], d[2], d[3])]
    ELSE IF wt = "WLK"
    THEN IF Unpack(4, d).kind = "raise"
         THEN [res |-> Unpack(4, d), obj |-> NoObject]
         ELSE [res |-> Returned("SportsWalking"),
               obj |-> SportsWalking_init(d[1], d[2], d[3], d[4])]
    ELSE [res |-> NoneVal, obj |-> NoObject]
read_package(wt, d) ==
    IF wt = "SWM"
    THEN IF Unpack(5, d).kind = "raise"
         THEN [res |-> Unpack(5, d), obj |-> NoObject]
         ELSE [res |-> Returned("Swimming"),
               obj |-> Swimming_init(d[1], d[2], d[3], d[4], d[5])]
    ELSE IF wt = "RUN"
    THEN IF Unpack(3, d).kind = "raise"
         THEN [res |-> Unpack(3, d), obj |-> NoObject]
         ELSE [res |-> Returned("Running"),
               obj |-> Running_init(d[1], d[2], d[3])]
    ELSE IF wt = "WLK"
    THEN IF Unpack(4, d).kind = "raise"
         THEN [res |-> Unpack(4, d), obj |-> NoObject]
         ELSE [res |-> Returned("SportsWalking"),
               obj |-> SportsWalking_init(d[1], d[2], d[3], d[4])]
    ELSE [res |-> NoneVal, obj |-> NoObject]

-----------------------------------------------------------------------------
(* Inputs *)

\* the packages of the __main__ block whose calories fit TLC's integers in
\* exact arithmetic
Packages ==
    { <<"SWM", <<720, 1, 80, 25, 40>>>>,
      <<"RUN", <<15000, 1, 75>>>> }

WorkoutTypes == {"SWM", "RUN", "WLK", "XYZ", ""}

\* values tried at each position of the argument list
PosVals(i) ==
    CASE i = 1 -> {0, 10000}
      [] i = 2 -> {0, 1, 2}
      [] i = 3 -> {-1, 5}
      [] i = 4 -> {0, 25, 50}
      [] i = 5 -> {0, 40}
      [] OTHER -> {7}

RECURSIVE Lists(_)
Lists(n) ==
    IF n = 0 THEN {<<>>}
    ELSE {Append(s, v) : s \in Lists(n - 1), v \in PosVals(n)}

DataLists == UNION {Lists(n) : n \in 0..MaxLen}

Inputs == Packages \cup (WorkoutTypes \X DataLists)

-----------------------------------------------------------------------------
(* State machine *)

NoCall == [op |-> "", res |-> NoneVal]

Init ==
    /\ ctor = ""
    /\ workout_type = ""
    /\ data = <<>>
    /\ outcome = Returned("none")
    /\ training = NoObject
    /\ ncalls = 0
    /\ last = NoCall
    /\ infos = <<>>
    /\ out = <<>>

\* the caller starts on a new object at the start and, as the loop of the
\* __main__ block does, after main has returned
Fresh == ctor = "" \/ (last.op = "main" /\ last.res.kind # "raise")

\* training = read_package(workout_type, data)
ReadPackage ==
    /\ Fresh
    /\ \E p \in Inputs :
        LET r == read_package(p[1], p[2])
        IN  /\ ctor' = "read_package"
            /\ workout_type' = p[1]
            /\ data' = p[2]
            /\ outcome' = r.res
            /\ training' = r.obj
            /\ ncalls' = 0
            /\ last' = NoCall
            /\ infos' = <<>>
            /\ out' = <<>>

\* training = Training(action, duration, weight): the base class is
\* an ordinary class and can be instantiated
TrainingInit ==
    /\ Fresh
    /\ \E a \in PosVals(1), d \in PosVals(2), w \in PosVals(3) :
        /\ ctor' = "Training"
        /\ workout_type' = ""
        /\ data' = <<a, d, w>>
        /\ outcome' = Returned("Training")
        /\ training' = Training_init(a, d, w)
        /\ ncalls' = 0
        /\ last' = NoCall
        /\ infos' = <<>>
        /\ out' = <<>>

HasObject == training.cls # "NoneType"

CanCall == ctor # "" /\ outcome.kind # "raise" /\ ncalls < MaxCalls

GetDistance ==
    /\ CanCall /\ HasObject
    /\ last' = [op |-> "get_distance", res |-> get_distance(training)]
    /\ ncalls' = ncalls + 1
    /\ UNCHANGED <<ctor, workout_type, data, outcome, training, infos, out>>

GetMeanSpeed ==
    /\ CanCall /\ HasObject
    /\ last' = [op |-> "get_mean_speed", res |-> get_mean_speed(training)]
    /\ ncalls' = ncalls + 1
    /\ UNCHANGED <<ctor, workout_type, data, outcome, training, infos, out>>

GetSpentCalories ==
    /\ CanCall /\ HasObject
    /\ last' = [op |-> "get_spent_calories",
                res |-> get_spent_calories(training)]
    /\ ncalls' = ncalls + 1
    /\ UNCHANGED <<ctor, workout_type, data, outcome, training, infos, out>>

ShowTrainingInfo_Consuming ==
    /\ CanCall /\ HasObject
    /\ LET r == show_training_info(training)
       IN  /\ last' = [op |-> "show_training_info", res |-> r.res]
           /\ infos' = IF r.res.kind = "raise" THEN infos
                       ELSE Append(infos, r.info)
           /\ training' = [training EXCEPT
                               !.attrs.duration = training.attrs.duration + 1]
    /\ ncalls' = ncalls + 1
    /\ UNCHANGED <<ctor, workout_type, data, outcome, out>>
ShowTrainingInfo ==
    /\ CanCall /\ HasObject
    /\ LET r == show_training_info(training)
       IN  /\ last' = [op |-> "show_training_info", res |-> r.res]
           /\ infos' = IF r.res.kind = "raise" THEN infos
                       ELSE Append(infos, r.info)
    /\ ncalls' = ncalls + 1
    /\ UNCHANGED <<ctor, workout_type, data, outcome, training, out>>

\* main(training): print(training.show_training_info().get_message())
Main ==
    /\ CanCall
    /\ IF ~HasObject
       THEN /\ last' = [op |-> "main",
                        res |-> Raise("AttributeError", "show_training_info")]
            /\ UNCHANGED <<infos, out>>
       ELSE LET r == show_training_info(training)
                m == get_message(r.info)
            IN  IF r.res.kind = "raise"
                THEN /\ last' = [op |-> "main", res |-> r.res]
                     /\ UNCHANGED <<infos, out>>
                ELSE IF m.res.kind = "raise"
                THEN /\ last' = [op |-> "main", res |-> m.res]
                     /\ infos' = Append(infos, r.info)
                     /\ UNCHANGED out
                ELSE /\ last' = [op |-> "main", res |-> NoneVal]
                     /\ infos' = Append(infos, r.info)
                     /\ out' = Append(out, m.message)
    /\ ncalls' = ncalls + 1
    /\ UNCHANGED <<ctor, workout_type, data, outcome, training>>

Next ==
    \/ ReadPackage
    \/ TrainingInit
    \/ GetDistance
    \/ GetMeanSpeed
    \/ GetSpentCalories
    \/ ShowTrainingInfo
    \/ Main

Spec == Init /\ [][Next]_vars

-----------------------------------------------------------------------------
(* Properties *)

Codes == {"SWM", "RUN", "WLK"}

Arity(wt) == CASE wt = "SWM" -> 5 [] wt = "RUN" -> 3 [] wt = "WLK" -> 4

\* C1: for a workout code outside {SWM, RUN, WLK}, read_package ends in an
\* "unsupported workout type" error that names the code, returns no value
\* and builds no object.
C1_UnknownCodeRaises ==
    (ctor = "read_package" /\ workout_type \notin Codes) =>
        /\ outcome.kind = "raise"
        /\ outcome.msg = workout_type
        /\ training = NoObject

\* C2: for a recognized code and an argument list shorter or longer than the
\* code's arity, read_package raises and builds no object, so no method is
\* ever called on an object made from a truncated or padded list.
C2_ArityMismatchRaises ==
    (/\ ctor = "read_package"
     /\ workout_type \in Codes
     /\ Len(data) # Arity(workout_type)) =>
        /\ outcome.kind = "raise"
        /\ outcome.exc = "ValueError"
        /\ training = NoObject
        /\ ncalls = 0

C2_Witness ==
    /\ ctor = "read_package"
    /\ workout_type = "RUN"
    /\ Len(data) = 2
    /\ outcome.kind = "raise"

\* C3: show_training_info on an object of the base class Training fails: it
\* raises and returns no InfoMessage.
C3_BaseSummaryFails ==
    training.cls = "Training" =>
        /\ infos = <<>>
        /\ last.op = "show_training_info" => last.res.kind = "raise"

\* C4: every object read_package returns has action > 0, duration > 0,
\* weight > 0, height > 0 (walking), length_pool > 0 and count_pool >= 0
\* (swimming), and no call of get_mean_speed divides by zero.
C4_RecordsValid ==
    (ctor = "read_package" /\ training # NoObject) =>
        /\ training.attrs.action > 0
        /\ training.attrs.duration > 0
        /\ training.attrs.weight > 0
        /\ training.cls = "SportsWalking" => training.attrs.height > 0
        /\ training.cls = "Swimming" =>
               /\ training.attrs.length_pool > 0
               /\ training.attrs.count_pool >= 0
        /\ last.op = "get_mean_speed" => last.res.exc # "ZeroDivisionError"

\* C5: for an argument list of the right length, read_package maps SWM to
\* Swimming, RUN to Running and WLK to SportsWalking, and every field holds
\* the argument of its own position.
C5_PositionalFields ==
    (/\ ctor = "read_package"
     /\ workout_type \in Codes
     /\ Len(data) = Arity(workout_type)) =>
        /\ workout_type = "SWM" =>
               /\ training.cls = "Swimming"
               /\ training.attrs = [action |-> data[1], duration |-> data[2],
                                    weight |-> data[3],
                                    length_pool |-> data[4],
                                    count_pool |-> data[5]]
        /\ workout_type = "RUN" =>
               /\ training.cls = "Running"
               /\ training.attrs = [action |-> data[1], duration |-> data[2],
                                    weight |-> data[3]]
        /\ workout_type = "WLK" =>
               /\ training.cls = "SportsWalking"
               /\ training.attrs = [action |-> data[1], duration |-> data[2],
                                    weight |-> data[3], height |-> data[4]]

C5_Witness ==
    /\ ctor = "read_package"
    /\ workout_type = "SWM"
    /\ data = <<720, 1, 80, 25, 40>>
    /\ training.cls = "Swimming"

RunningSample == Running_init(15000, 1, 75)
SwimmingSample == Swimming_init(720, 1, 80, 25, 40)

\* C6 as stated: for Running with 15000 steps, 1 hour, 75 kg, the calories
\* are 791.963 when rounded to 3 decimals.
C6_Calories791963 ==
    (training = RunningSample /\ last.op = "get_spent_calories") =>
        Round3(last.res.val) = 791963

\* C6 as amended: for Running with 15000 steps, 1 hour, 75 kg (mean speed
\* 9.75) the calories are 797.805 when rounded to 3 decimals, both as
\* get_spent_calories returns them and as main prints them.
C6_Calories797805 ==
    training = RunningSample =>
        /\ last.op = "get_spent_calories" => Round3(last.res.val) = 797805
        /\ \A i \in DOMAIN out :
               out[i].speed = 9750 /\ out[i].calories = 797805

C6_Witness ==
    /\ training = RunningSample
    /\ last.op = "get_spent_calories"
    /\ Len(out) >= 1

\* C7: in every report, the mean speed of a Running or SportsWalking object
\* is its distance / duration; the mean speed of a Swimming object is
\* (length_pool * count_pool / 1000) / duration, whatever its action, and its
\* calories are (speed + 1.1) * 2 * weight * duration; the SWM sample has
\* speed 1.0 and calories 336.0.
C7_MeanSpeed ==
    \A i \in DOMAIN infos :
        LET a == training.attrs
            m == infos[i]
        IN  /\ training.cls \in {"Running", "SportsWalking"} =>
                   m.speed = RDiv(m.distance, R(a.duration))
            /\ training.cls = "Swimming" =>
                   /\ m.speed = RDiv(RDiv(R(a.length_pool * a.count_pool),
                                          R(1000)), R(a.duration))
                   /\ m.calories.val =
                          RMul(RMul(RMul(RAdd(m.speed, Norm(11, 10)), R(2)),
                                    R(a.weight)), R(a.duration))
            /\ training = SwimmingSample =>
                   m.speed = R(1) /\ m.calories.val = R(336)

C7_Witness ==
    /\ training = SwimmingSample
    /\ Len(infos) >= 1
    /\ last.op = "show_training_info"

\* C8: the distance is action * stepLength / 1000 with stepLength 0.65 for
\* Running and SportsWalking and 1.38 for Swimming; 15000 steps of Running
\* give 9.75 and 720 strokes of Swimming give 0.9936.
C8_Distance ==
    LET a == training.attrs
        step == IF training.cls = "Swimming" THEN Norm(138, 100)
                ELSE Norm(65, 100)
        want == RDiv(RMul(R(a.action), step), R(1000))
    IN  training.cls \in {"Running", "SportsWalking", "Swimming"} =>
            /\ last.op = "get_distance" =>
                   /\ last.res.val = want
                   /\ training = RunningSample => last.res.val = Norm(975, 100)
                   /\ training = SwimmingSample =>
                          last.res.val = Norm(9936, 10000)
            /\ \A i \in DOMAIN infos : infos[i].distance = want

C8_Witness ==
    /\ training = SwimmingSample
    /\ last.op = "get_distance"
    /\ Len(infos) >= 1

\* C9: a method call leaves every field of the object unchanged, and all the
\* reports show_training_info has returned for the object are identical.
C9_Pure ==
    [][ncalls' = ncalls + 1 =>
           /\ training' = training
           /\ \A i, j \in DOMAIN infos' : infos'[i] = infos'[j]]_vars

C9_Witness ==
    /\ training.cls = "SportsWalking"
    /\ Len(infos) = 2
    /\ last.op = "get_spent_calories"

\* the Walking formula as the specification first writes it
WalkingCaloriesByMetres(weight, speed, height, duration) ==
    LET ms == RMul(speed, Norm(278, 1000))
        metres == RDiv(R(height), R(100))
    IN  RMul(RMul(
            RAdd(RMul(Norm(35, 1000), R(weight)),
                 RMul(RMul(RDiv(RMul(ms, ms), metres), Norm(29, 1000)),
                      R(weight))),
            R(duration)), R(60))

\* C10: for a SportsWalking object with height > 0, the calories the code
\* computes with (speed * 0.278)^2 / height * 100 equal the formula written
\* with (speed * 0.278)^2 / (height / 100).
C10_WalkingFormsAgree ==
    (training.cls = "SportsWalking" /\ training.attrs.height > 0) =>
        \A i \in DOMAIN infos :
            infos[i].calories.val =
                WalkingCaloriesByMetres(training.attrs.weight, infos[i].speed,
                                        training.attrs.height,
                                        training.attrs.duration)

C10_Witness ==
    /\ training.cls = "SportsWalking"
    /\ training.attrs.height > 0
    /\ training.attrs.action > 0
    /\ Len(infos) >= 1

====
